---- MODULE Spec2Model ----
(***************************************************************************)
(* A model of the history buffer of src/src/index.ts (createHistory): the  *)
(* closure variables _maxSize, _defaultValue, _validate, _index, _entries  *)
(* and the handlers add, current, length, options (setOptions) and         *)
(* move.first / last / pastLast / prev / next.                             *)
(*                                                                         *)
(* JavaScript values are modelled as strings: "undefined" and "null" are   *)
(* the two absent values, "NaN" is the number NaN (the one value that is   *)
(* not === to itself), every other string is an ordinary entry.            *)
(***************************************************************************)
EXTENDS Integers, Sequences, FiniteSets

VARIABLES
    live,           \* TRUE once createHistory has returned an IHistory object
    _maxSize,       \* index.ts:99   [t |-> "undefined" | "number", n |-> Int]
    _defaultValue,  \* index.ts:100
    _validate,      \* index.ts:101  the set of entries the predicate accepts
    _index,         \* index.ts:102
    _entries,       \* index.ts:106
    op,             \* the handler that ran last
    arg,            \* the entry given to the last add ("undefined" otherwise)
    given,          \* the options given to the last createHistory / options()
    ret,            \* what the last handler returned or threw
    prior,          \* _entries and _index as the last handler found them
    reconfigured,   \* options() has succeeded on the live buffer
    added,          \* the accepted entries, while they are pairwise distinct
    fresh,          \* only pairwise distinct entries were accepted so far
    shrunk,         \* the last options() set a maxSize >= 1 below length()
    justAdded,      \* the entry accepted by the add right before the last handler
    walk            \* consecutive move.prev() calls since the cursor was past-last

vars == <<live, _maxSize, _defaultValue, _validate, _index, _entries,
          op, arg, given, ret, prior, reconfigured, added, fresh, shrunk,
          justAdded, walk>>

config == <<_maxSize, _defaultValue, _validate>>

ghosts == <<reconfigured, added, fresh, shrunk>>

----------------------------------------------------------------------------
(* Bounds of the model *)

\* the largest maxSize an options object carries
MaxCap == 3

----------------------------------------------------------------------------
(* Values *)

Undefined == "undefined"

Null == "null"

NaN == "NaN"

\* the entries handed to add: two strings and the number NaN
Entries == {"a", "b", NaN}

\* the defaultValue fields of an options object ("undefined": field omitted)
DefaultValues == {Undefined, "dflt"}

\* the predicate createHistory starts with: (_: T) => true
AcceptAll == Entries

\* the validate predicates an options object carries, as the sets they accept
Validators == {AcceptAll, Entries \ {"a"}}

NoMaxSize == [t |-> Undefined, n |-> 0]

Num(k) == [t |-> "number", n |-> k]

\* the maxSize fields of an options object: omitted, null, or a number
MaxSizeFields == {NoMaxSize, [t |-> Null, n |-> 0]} \cup {Num(k) : k \in (0 - 1)..MaxCap}

ValidateFields == {[t |-> Undefined, accepts |-> {}]}
                    \cup {[t |-> "function", accepts |-> v] : v \in Validators}

\* no options object: createHistory() / options()
NoOptions == [t |-> Undefined, maxSize |-> NoMaxSize, defaultValue |-> Undefined,
              validate |-> [t |-> Undefined, accepts |-> {}]]

\* the arguments of createHistory / options(): undefined, null, or an object
Options == {NoOptions,
            [t |-> Null, maxSize |-> NoMaxSize, defaultValue |-> Undefined,
             validate |-> [t |-> Undefined, accepts |-> {}]]}
           \cup [t : {"object"}, maxSize : MaxSizeFields,
                 defaultValue : DefaultValues, validate : ValidateFields]

\* x === y on entries
StrictEq(x, y) == x = y /\ x # NaN

----------------------------------------------------------------------------
(* Return values *)

Void == [t |-> "void", b |-> FALSE, v |-> Undefined, n |-> 0]

Bool(b) == [t |-> "boolean", b |-> b, v |-> Undefined, n |-> 0]

Value(v) == [t |-> "value", b |-> FALSE, v |-> v, n |-> 0]

Number(n) == [t |-> "number", b |-> FALSE, v |-> Undefined, n |-> n]

Object == [t |-> "object", b |-> FALSE, v |-> Undefined, n |-> 0]

\* throw new Error("Options must specify maxSize.")
Thrown == [t |-> "error", b |-> FALSE, v |-> "Options must specify maxSize.", n |-> 0]

----------------------------------------------------------------------------
(* setOptions, index.ts:166-181 *)

\* maxSize tested with === undefined: a null maxSize passes
setOptionsThrows_strict(options) ==
    options.t # "object" \/ options.maxSize.t = Undefined

\* only the options object is tested, not its maxSize
setOptionsThrows_noMaxSize(options) == options.t # "object"

\* index.ts:167  options == null || options.maxSize == null
setOptionsThrows(options) ==
    options.t # "object" \/ options.maxSize.t \in {Undefined, Null}

\* index.ts:170-172
setMaxSize(old, options) ==
    IF options.maxSize.t # Undefined THEN options.maxSize ELSE old

\* an omitted defaultValue resets the stored one
setDefaultValue_reset(old, options) == options.defaultValue

\* index.ts:174-176
setDefaultValue(old, options) ==
    IF options.defaultValue # Undefined THEN options.defaultValue ELSE old

\* index.ts:178-180
setValidate(old, options) ==
    IF options.validate.t # Undefined THEN options.validate.accepts ELSE old

----------------------------------------------------------------------------
(* move, index.ts:108-164: each handler gives the new _index and its result *)

moveFirst(es, idx) ==
    IF Len(es) = 0
    THEN [index |-> 0 - 1, ret |-> FALSE]
    ELSE [index |-> 0, ret |-> TRUE]

\* true only if the cursor moved, as for prev and next
moveLast_ifMoved(es, idx) ==
    IF Len(es) = 0
    THEN [index |-> 0 - 1, ret |-> FALSE]
    ELSE [index |-> Len(es) - 1, ret |-> idx # Len(es) - 1]

moveLast(es, idx) ==
    IF Len(es) = 0
    THEN [index |-> 0 - 1, ret |-> FALSE]
    ELSE [index |-> Len(es) - 1, ret |-> TRUE]

\* past-last taken for the last index
movePastLast_last(es, idx) ==
    IF Len(es) = 0
    THEN [index |-> 0 - 1, ret |-> FALSE]
    ELSE [index |-> Len(es) - 1, ret |-> TRUE]

movePastLast(es, idx) ==
    IF Len(es) = 0
    THEN [index |-> 0 - 1, ret |-> FALSE]
    ELSE [index |-> Len(es), ret |-> TRUE]

\* the clamp written idx <= 1: the first entry is never reached
movePrev_early(es, idx) ==
    IF idx <= 1
    THEN [index |-> idx, ret |-> FALSE]
    ELSE [index |-> idx - 1, ret |-> TRUE]

\* the clamp written idx < 0: the cursor steps from 0 to -1
movePrev_belowZero(es, idx) ==
    IF idx < 0
    THEN [index |-> idx, ret |-> FALSE]
    ELSE [index |-> idx - 1, ret |-> TRUE]

movePrev(es, idx) ==
    IF idx <= 0
    THEN [index |-> idx, ret |-> FALSE]
    ELSE [index |-> idx - 1, ret |-> TRUE]

\* the clamp written against the last index instead of the length
moveNext_lastIndex(es, idx) ==
    IF idx = Len(es) - 1
    THEN [index |-> idx, ret |-> FALSE]
    ELSE [index |-> idx + 1, ret |-> TRUE]

\* no clamp at the end
moveNext_unclamped(es, idx) == [index |-> idx + 1, ret |-> TRUE]

moveNext(es, idx) ==
    IF idx = Len(es)
    THEN [index |-> idx, ret |-> FALSE]
    ELSE [index |-> idx + 1, ret |-> TRUE]

----------------------------------------------------------------------------
(* current and length, index.ts:183-187 and 215-217 *)

current(es, idx, dflt) ==
    IF Len(es) > 0 /\ idx >= 0 /\ idx < Len(es) THEN es[idx + 1] ELSE dflt

length(es) == Len(es)

----------------------------------------------------------------------------
(* add, index.ts:189-213 *)

\* _entries[i] for a JavaScript index i: undefined outside the array
At(es, i) == IF i >= 0 /\ i < Len(es) THEN es[i + 1] ELSE Undefined

\* splice(i) without its delete count: everything from i on is removed
Splice_toEnd(es, i) ==
    IF i >= 0 /\ i < Len(es) THEN SubSeq(es, 1, i) ELSE es

\* _entries.splice(i, 1)
Splice(es, i) ==
    IF i >= 0 /\ i < Len(es)
    THEN SubSeq(es, 1, i) \o SubSeq(es, i + 2, Len(es))
    ELSE es

\* _entries.shift()
Shift(es) == IF Len(es) = 0 THEN es ELSE Tail(es)

\* index.ts:198-202, the loop from index i down to 0
RECURSIVE removeDupesFrom(_, _, _)
removeDupesFrom(es, entry, i) ==
    IF i < 0
    THEN es
    ELSE removeDupesFrom(IF StrictEq(At(es, i), entry) THEN Splice(es, i) ELSE es,
                         entry, i - 1)

\* the loop stopping at i > 0: a copy at index 0 survives
removeDupes_keepsFirst(es, entry) ==
    IF Len(es) = 0
    THEN es
    ELSE <<Head(es)>> \o removeDupesFrom(Tail(es), entry, Len(es) - 1)

\* index.ts:198  for (let i = _entries.length; i >= 0; --i)
removeDupes(es, entry) == removeDupesFrom(es, entry, Len(es))

\* the capacity test written > instead of >=
makeRoom_late(es, max) == IF Len(es) > max.n THEN Shift(es) ELSE es

\* index.ts:205-207  _maxSize is a number on every live buffer
makeRoom(es, max) == IF Len(es) >= max.n THEN Shift(es) ELSE es

\* validate taken to accept everything
validates_all(accepts, entry) == TRUE

\* index.ts:191  _validate(entry)
validates(accepts, entry) == entry \in accepts

\* the rejected entry leaving the cursor where it was
rejectIndex_stays(es, idx) == idx

\* index.ts:191-195, the rejected entry: the new _index
rejectIndex(es, idx) == Len(es)

\* room made before the duplicate is removed
addEntry_roomFirst(es, entry, max) ==
    Append(removeDupes(makeRoom(es, max), entry), entry)

\* index.ts:197-210, the accepted entry: the new _entries
addEntry(es, entry, max) == Append(makeRoom(removeDupes(es, entry), max), entry)

----------------------------------------------------------------------------
(* The history variables *)

\* the walk a handler other than move.prev() leaves: 0 at past-last of a
\* non-empty buffer, -1 (no walk) elsewhere
walkAfter(es, idx) == IF Len(es) >= 1 /\ idx = Len(es) THEN 0 ELSE 0 - 1

\* the walk after one more move.prev(); counts up to Len(es) + 1, "more than Len(es)"
walkPrev(es, w) ==
    IF w < 0 THEN w ELSE IF w > Len(es) THEN w ELSE w + 1

Range(s) == {s[i] : i \in 1..Len(s)}

\* the entry of the handler that ran last, if that was an accepted add
lastAccepted ==
    IF live /\ op = "add" /\ arg \in _validate THEN arg ELSE Undefined

----------------------------------------------------------------------------
(* The state before createHistory is called: index.ts:99-102 *)

Init ==
    /\ live = FALSE
    /\ _maxSize = NoMaxSize
    /\ _defaultValue = Undefined
    /\ _validate = AcceptAll
    /\ _index = 0 - 1
    /\ _entries = << >>
    /\ op = "none"
    /\ arg = Undefined
    /\ given = NoOptions
    /\ ret = Void
    /\ prior = [entries |-> << >>, index |-> 0 - 1]
    /\ reconfigured = FALSE
    /\ added = << >>
    /\ fresh = TRUE
    /\ shrunk = FALSE
    /\ justAdded = Undefined
    /\ walk = 0 - 1

\* createHistory(options), index.ts:98-227: setOptions(options) throws before
\* any object exists, or the IHistory object is returned
createHistory(options) ==
    /\ ~live
    /\ op' = "createHistory"
    /\ arg' = Undefined
    /\ given' = options
    /\ prior' = [entries |-> _entries, index |-> _index]
    /\ justAdded' = lastAccepted
    /\ UNCHANGED <<_index, _entries, ghosts, walk>>
    /\ IF setOptionsThrows(options)
       THEN /\ ret' = Thrown
            /\ UNCHANGED <<live, config>>
       ELSE /\ ret' = Object
            /\ live' = TRUE
            /\ _maxSize' = setMaxSize(_maxSize, options)
            /\ _defaultValue' = setDefaultValue(_defaultValue, options)
            /\ _validate' = setValidate(_validate, options)

\* history.options(options), index.ts:166-181 on the live buffer
options(o) ==
    /\ live
    /\ op' = "options"
    /\ arg' = Undefined
    /\ given' = o
    /\ prior' = [entries |-> _entries, index |-> _index]
    /\ justAdded' = lastAccepted
    /\ walk' = walkAfter(_entries, _index)
    /\ UNCHANGED <<live, _index, _entries>>
    /\ IF setOptionsThrows(o)
       THEN /\ ret' = Thrown
            /\ UNCHANGED <<config, ghosts>>
       ELSE /\ ret' = Void
            /\ _maxSize' = setMaxSize(_maxSize, o)
            /\ _defaultValue' = setDefaultValue(_defaultValue, o)
            /\ _validate' = setValidate(_validate, o)
            /\ reconfigured' = TRUE
            /\ fresh' = FALSE
            /\ added' = << >>
            /\ shrunk' = (_maxSize'.n >= 1 /\ _maxSize'.n < Len(_entries))

\* history.add(entry), index.ts:189-213
add(entry) ==
    /\ live
    /\ op' = "add"
    /\ arg' = entry
    /\ given' = NoOptions
    /\ prior' = [entries |-> _entries, index |-> _index]
    /\ justAdded' = lastAccepted
    /\ ret' = Void
    /\ UNCHANGED <<live, config, reconfigured, shrunk>>
    /\ IF ~validates(_validate, entry)
       THEN /\ _index' = rejectIndex(_entries, _index)
            /\ UNCHANGED <<_entries, added, fresh>>
       ELSE /\ _entries' = addEntry(_entries, entry, _maxSize)
            /\ _index' = movePastLast(_entries', _index).index
            /\ fresh' = (fresh /\ entry \notin Range(added))
            /\ added' = IF fresh' THEN Append(added, entry) ELSE << >>
    /\ walk' = walkAfter(_entries', _index')

\* current() that also parks an unselected cursor at past-last
Current_parks ==
    /\ live
    /\ op' = "current"
    /\ arg' = Undefined
    /\ given' = NoOptions
    /\ prior' = [entries |-> _entries, index |-> _index]
    /\ justAdded' = lastAccepted
    /\ ret' = Value(current(_entries, _index, _defaultValue))
    /\ _index' = IF _index >= 0 /\ _index < Len(_entries)
                 THEN _index ELSE Len(_entries)
    /\ UNCHANGED <<live, config, _entries, ghosts, walk>>

\* history.current(), index.ts:183-187
Current ==
    /\ live
    /\ op' = "current"
    /\ arg' = Undefined
    /\ given' = NoOptions
    /\ prior' = [entries |-> _entries, index |-> _index]
    /\ justAdded' = lastAccepted
    /\ ret' = Value(current(_entries, _index, _defaultValue))
    /\ UNCHANGED <<live, config, _index, _entries, ghosts, walk>>

\* history.length(), index.ts:215-217
Length ==
    /\ live
    /\ op' = "length"
    /\ arg' = Undefined
    /\ given' = NoOptions
    /\ prior' = [entries |-> _entries, index |-> _index]
    /\ justAdded' = lastAccepted
    /\ ret' = Number(length(_entries))
    /\ UNCHANGED <<live, config, _index, _entries, ghosts, walk>>

\* history.move.first(), index.ts:109-119
First ==
    /\ live
    /\ op' = "first"
    /\ arg' = Undefined
    /\ given' = NoOptions
    /\ prior' = [entries |-> _entries, index |-> _index]
    /\ justAdded' = lastAccepted
    /\ _index' = moveFirst(_entries, _index).index
    /\ ret' = Bool(moveFirst(_entries, _index).ret)
    /\ walk' = walkAfter(_entries, _index')
    /\ UNCHANGED <<live, config, _entries, ghosts>>

\* history.move.last(), index.ts:121-131
Last ==
    /\ live
    /\ op' = "last"
    /\ arg' = Undefined
    /\ given' = NoOptions
    /\ prior' = [entries |-> _entries, index |-> _index]
    /\ justAdded' = lastAccepted
    /\ _index' = moveLast(_entries, _index).index
    /\ ret' = Bool(moveLast(_entries, _index).ret)
    /\ walk' = walkAfter(_entries, _index')
    /\ UNCHANGED <<live, config, _entries, ghosts>>

\* history.move.pastLast(), index.ts:133-143
PastLast ==
    /\ live
    /\ op' = "pastLast"
    /\ arg' = Undefined
    /\ given' = NoOptions
    /\ prior' = [entries |-> _entries, index |-> _index]
    /\ justAdded' = lastAccepted
    /\ _index' = movePastLast(_entries, _index).index
    /\ ret' = Bool(movePastLast(_entries, _index).ret)
    /\ walk' = walkAfter(_entries, _index')
    /\ UNCHANGED <<live, config, _entries, ghosts>>

\* history.move.prev(), index.ts:145-153
Prev ==
    /\ live
    /\ op' = "prev"
    /\ arg' = Undefined
    /\ given' = NoOptions
    /\ prior' = [entries |-> _entries, index |-> _index]
    /\ justAdded' = lastAccepted
    /\ _index' = movePrev(_entries, _index).index
    /\ ret' = Bool(movePrev(_entries, _index).ret)
    /\ walk' = walkPrev(_entries, walk)
    /\ UNCHANGED <<live, config, _entries, ghosts>>

\* history.move.next(), index.ts:155-163
Next_ ==
    /\ live
    /\ op' = "next"
    /\ arg' = Undefined
    /\ given' = NoOptions
    /\ prior' = [entries |-> _entries, index |-> _index]
    /\ justAdded' = lastAccepted
    /\ _index' = moveNext(_entries, _index).index
    /\ ret' = Bool(moveNext(_entries, _index).ret)
    /\ walk' = walkAfter(_entries, _index')
    /\ UNCHANGED <<live, config, _entries, ghosts>>

Next ==
    \/ \E o \in Options : createHistory(o)
    \/ \E o \in Options : options(o)
    \/ \E entry \in Entries : add(entry)
    \/ Current
    \/ Length
    \/ First
    \/ Last
    \/ PastLast
    \/ Prev
    \/ Next_

Spec == Init /\ [][Next]_vars

----------------------------------------------------------------------------
(* Definitions the properties share *)

\* some element of es is === e
Has(es, e) == \E i \in 1..Len(es) : StrictEq(es[i], e)

\* es without its elements === e, the order of the others kept
Without(es, e) == SelectSeq(es, LAMBDA x : ~StrictEq(x, e))

\* no two elements of es are === (NaN is === to nothing, itself included)
NoDuplicates(es) ==
    \A i, j \in 1..Len(es) : i # j => ~StrictEq(es[i], es[j])

\* the last handler was an add that validate accepted / rejected
Accepted == live /\ op = "add" /\ arg \in _validate

Rejected == live /\ op = "add" /\ arg \notin _validate

----------------------------------------------------------------------------
(* C1 - C10 *)

\* C1: on a buffer created with maxSize >= 1 and never reconfigured, whatever
\* adds (accepted or rejected) and moves ran, length() <= maxSize.
C1_CapacityBound ==
    (live /\ ~reconfigured /\ _maxSize.n >= 1) => length(_entries) <= _maxSize.n

\* a new entry was added to a buffer that was full, and it is full again
C1_Witness ==
    /\ Accepted /\ ~reconfigured /\ _maxSize.n = 2
    /\ Len(prior.entries) = 2 /\ ~Has(prior.entries, arg)
    /\ length(_entries) = 2

\* C2: whatever adds, moves and options() calls ran, no two elements of
\* _entries are equal (===).
C2_NoDuplicates == NoDuplicates(_entries)

\* an entry the buffer held was added again, on a reconfigured buffer
C2_Witness ==
    /\ Accepted /\ reconfigured
    /\ Has(prior.entries, arg) /\ Len(prior.entries) >= 2
    /\ Len(_entries) >= 2

\* the last k elements of s
LastOf(s, k) == SubSeq(s, Len(s) - k + 1, Len(s))

\* C3: from the empty buffer of capacity maxSize, after N > maxSize pairwise
\* distinct valid entries x1..xN were added in that order, _entries is the
\* last maxSize of them in insertion order; and each add of a new entry on a
\* full buffer removes exactly the element at index 0.
C3_FifoEviction ==
    /\ (live /\ fresh /\ _maxSize.n >= 0 /\ Len(added) > _maxSize.n)
          => _entries = LastOf(added, _maxSize.n)
    /\ (Accepted /\ fresh /\ _maxSize.n >= 0 /\ Len(prior.entries) = _maxSize.n)
          => /\ Len(_entries) = _maxSize.n
             /\ _entries = Tail(prior.entries) \o <<arg>>

\* C3 for the capacities maxSize >= 1
C3_FifoEvictionFromOne == _maxSize.n >= 1 => C3_FifoEviction

\* three distinct entries went into a buffer of capacity 2
C3_Witness ==
    /\ Accepted /\ fresh /\ _maxSize.n = 2 /\ Len(added) = 3
    /\ _entries = <<added[2], added[3]>>

\* C4 as claimed: in any reachable state, add(e) of a valid e that _entries
\* holds gives the old entries without e, in their order, followed by e;
\* length() is unchanged and nothing but the old copy of e is removed.
\* (Stated for the capacities maxSize >= 1, where it already fails.)
C4_DuplicateReAdd ==
    (Accepted /\ Has(prior.entries, arg) /\ _maxSize.n >= 1)
        => /\ _entries = Without(prior.entries, arg) \o <<arg>>
           /\ length(_entries) = Len(prior.entries)

\* C4 as amended: the same, in the reachable states where length() <= maxSize
\* or e is the only entry (a buffer left over capacity by a smaller maxSize
\* still evicts its oldest entry on the re-add).
C4_DuplicateReAddWithinCapacity ==
    (Accepted /\ Has(prior.entries, arg)
        /\ (Len(prior.entries) <= _maxSize.n \/ Len(prior.entries) = 1))
        => /\ _entries = Without(prior.entries, arg) \o <<arg>>
           /\ length(_entries) = Len(prior.entries)

\* the middle one of three entries was added again
C4_Witness ==
    /\ Accepted /\ Len(prior.entries) = 3 /\ _maxSize.n = 3
    /\ StrictEq(prior.entries[2], arg)
    /\ _entries = <<prior.entries[1], prior.entries[3], arg>>

\* C5: after every add, accepted or rejected, _index = _entries.length and
\* current() returns defaultValue.
C5_AddLeavesPastLast ==
    (live /\ op = "add")
        => /\ _index = Len(_entries)
           /\ current(_entries, _index, _defaultValue) = _defaultValue

\* a rejected add found the cursor on an entry
C5_Witness ==
    /\ Rejected /\ Len(_entries) >= 2
    /\ prior.index >= 0 /\ prior.index < Len(prior.entries)
    /\ _defaultValue = "dflt"

\* C6: with entries [e1..eN], N >= 1, and the cursor at past-last, N
\* consecutive move.prev() calls each return true and make current() equal
\* eN, eN-1, ..., e1 in turn; every further move.prev() returns false and
\* leaves current() at e1.  (walk counts the calls, up to N + 1.)
C6_BackwardWalk ==
    (live /\ walk >= 1)
        => LET N == Len(_entries)
               cur == current(_entries, _index, _defaultValue)
           IN  IF walk <= N
               THEN /\ op = "prev" => ret = Bool(TRUE)
                    /\ cur = _entries[N - walk + 1]
               ELSE /\ op = "prev" => ret = Bool(FALSE)
                    /\ cur = _entries[1]

\* the walk over three entries went one call past the first entry
C6_Witness ==
    /\ live /\ op = "prev" /\ Len(_entries) = 3 /\ walk = 4
    /\ prior.index = 0 /\ ret = Bool(FALSE)

C8_StepsReportMovement ==
    /\ (live /\ op = "prev")
          => /\ ret = Bool(_index # prior.index)
             /\ _index = IF prior.index <= 0 THEN prior.index ELSE prior.index - 1
    /\ (live /\ op = "next")
          => /\ ret = Bool(_index # prior.index)
             /\ _index = IF prior.index = Len(prior.entries)
                         THEN prior.index ELSE prior.index + 1

\* move.next() on a fresh empty buffer took the cursor from -1 to 0
C8_Witness ==
    /\ live /\ op = "next" /\ Len(_entries) = 0
    /\ prior.index = 0 - 1 /\ _index = 0 /\ ret = Bool(TRUE)

\* C9: when validate(entry) is false, add(entry) leaves _entries unchanged,
\* sets the cursor to _entries.length and signals no error, also when entry
\* equals a stored element.
C9_RejectedAdd ==
    Rejected
        => /\ _entries = prior.entries
           /\ _index = Len(prior.entries)
           /\ ret = Void

\* a stored entry was rejected while the cursor was on an entry
C9_Witness ==
    /\ Rejected /\ Has(_entries, arg)
    /\ prior.index >= 0 /\ prior.index < Len(prior.entries)

\* the options object carries no maxSize (omitted, or null)
MaxSizeAbsent(o) == o.maxSize.t \in {Undefined, Null}

\* C10: createHistory fails with the configuration error when options is
\* absent or maxSize is absent, and in every other case (maxSize = 0 too)
\* yields a buffer with length() = 0, cursor = -1 and current() = defaultValue
\* (undefined when none was supplied).
C10_Construction ==
    (op = "createHistory")
        => IF given.t # "object" \/ MaxSizeAbsent(given)
           THEN ~live /\ ret = Thrown
           ELSE /\ live /\ ret = Object
                /\ length(_entries) = 0
                /\ _index = 0 - 1
                /\ _maxSize = given.maxSize
                /\ _defaultValue = given.defaultValue
                /\ current(_entries, _index, _defaultValue) = given.defaultValue

\* createHistory({maxSize: 0}) succeeded
C10_Witness ==
    /\ op = "createHistory" /\ live
    /\ given.maxSize = Num(0) /\ given.defaultValue = Undefined

----------------------------------------------------------------------------
(* C11 - C20 *)

\* C11: options() on a live buffer with absent options or absent maxSize
\* raises the configuration error and leaves maxSize, defaultValue, validate,
\* _entries and the cursor unchanged, also when the rejected options object
\* carries a defaultValue or a validate.
C11_FailedReconfigurationAtomic ==
    [][(live /\ op' = "options"
            /\ (given'.t # "object" \/ MaxSizeAbsent(given')))
          => /\ ret' = Thrown
             /\ UNCHANGED <<config, _entries, _index>>]_vars

\* options({defaultValue, validate}) without maxSize threw on a buffer that
\* holds entries and still has its first defaultValue and validate
C11_Witness ==
    /\ live /\ op = "options" /\ ret = Thrown
    /\ given.t = "object" /\ given.maxSize.t = Undefined
    /\ given.defaultValue = "dflt" /\ _defaultValue = Undefined
    /\ given.validate.t = "function" /\ given.validate.accepts # _validate
    /\ Len(_entries) >= 2 /\ _index = 0

\* C12: options(o) with maxSize present overwrites maxSize and only those of
\* defaultValue / validate that o carries, and leaves _entries and the cursor
\* as they were, also when the new maxSize is below the current length.
C12_SuccessfulReconfiguration ==
    [][(live /\ op' = "options"
            /\ given'.t = "object" /\ ~MaxSizeAbsent(given'))
          => /\ ret' = Void
             /\ _maxSize' = given'.maxSize
             /\ _defaultValue' = IF given'.defaultValue = Undefined
                                 THEN _defaultValue ELSE given'.defaultValue
             /\ _validate' = IF given'.validate.t = Undefined
                             THEN _validate ELSE given'.validate.accepts
             /\ UNCHANGED <<_entries, _index>>]_vars

\* options({maxSize: 1}) on three entries kept them, the cursor, and the
\* defaultValue and validate set before
C12_Witness ==
    /\ live /\ op = "options" /\ ret = Void
    /\ given.maxSize = Num(1) /\ _maxSize = Num(1)
    /\ given.defaultValue = Undefined /\ _defaultValue = "dflt"
    /\ given.validate.t = Undefined /\ _validate # AcceptAll
    /\ Len(_entries) = 3 /\ _index = 1

\* C13: a buffer created with maxSize = 0 is permanently empty: after any
\* adds and moves, with no reconfiguration, length() = 0.
C13_ZeroCapacityStaysEmpty ==
    (live /\ ~reconfigured /\ _maxSize = Num(0)) => length(_entries) = 0

\* what the code does at maxSize = 0: the buffer holds the last accepted
\* entry, so length() is 0 before the first accepted add and 1 after it
C13_ZeroCapacityHoldsOne ==
    (live /\ ~reconfigured /\ _maxSize = Num(0))
        => /\ length(_entries) <= 1
           /\ Accepted => _entries = <<arg>>

\* C14: as documented on IHistory, move.first(), move.last() and
\* move.pastLast() return true only if movement occurred: false when the
\* cursor is already at the first entry, at the last entry, at past-last.
\* (Stated for the capacities maxSize >= 1, where it already fails.)
C14_JumpsReportMovement ==
    (live /\ _maxSize.n >= 1 /\ Len(prior.entries) > 0)
        => /\ (op = "first" /\ prior.index = 0) => ret = Bool(FALSE)
           /\ (op = "last" /\ prior.index = Len(prior.entries) - 1)
                 => ret = Bool(FALSE)
           /\ (op = "pastLast" /\ prior.index = Len(prior.entries))
                 => ret = Bool(FALSE)

\* C15: whatever adds, moves and options() calls ran, -1 <= cursor <=
\* _entries.length.
C15_CursorRange ==
    /\ _index >= 0 - 1
    /\ _index <= Len(_entries)

\* move.next() was called with the cursor at past-last of a reconfigured buffer
C15_Witness ==
    /\ live /\ reconfigured /\ op = "next"
    /\ Len(_entries) >= 2 /\ prior.index = Len(_entries)
    /\ _index = Len(_entries)

\* C16: after options() set a maxSize m >= 1 below the current length, every
\* later accepted add leaves length() <= m.
\* (Stated for buffers that hold no NaN, where it already fails.)
C16_ShrinkBoundsLaterAdds ==
    (Accepted /\ shrunk /\ NaN \notin Range(_entries))
        => length(_entries) <= _maxSize.n

\* what the code does after such a shrink: an accepted add never grows the
\* buffer, and shortens it by one only when it re-adds a stored entry
C16_ShrinkNeverGrows ==
    (Accepted /\ shrunk /\ Len(prior.entries) > _maxSize.n)
        => length(_entries) = IF Has(prior.entries, arg)
                              THEN Len(prior.entries) - 1
                              ELSE Len(prior.entries)

\* C17: move.prev / next / first / last / pastLast never change _entries or
\* the configuration, only the cursor; current() and length() change nothing:
\* _entries, the cursor and the configuration are as before.
C17_ReadOnlyOperations ==
    [][/\ op' \in {"prev", "next", "first", "last", "pastLast"}
            => UNCHANGED <<_entries, config>>
       /\ op' \in {"current", "length"}
            => UNCHANGED <<_entries, _index, config>>]_vars

\* current() gave the defaultValue of an empty buffer whose cursor was -1,
\* and the cursor is still -1
C17_Witness ==
    /\ live /\ op = "current" /\ ret = Value("dflt")
    /\ Len(_entries) = 0 /\ prior.index = 0 - 1 /\ _index = 0 - 1

\* C18: right after an accepted add(e), move.prev() returns true and
\* current() then returns e, from every reachable state, for every
\* maxSize >= 1.
C18_LastAddedIsOneStepBack ==
    (live /\ op = "prev" /\ justAdded # Undefined /\ _maxSize.n >= 1)
        => /\ ret = Bool(TRUE)
           /\ current(_entries, _index, _defaultValue) = justAdded

\* move.prev() ran right after the add that evicted an entry from a full buffer
C18_Witness ==
    /\ live /\ op = "prev" /\ justAdded = "b" /\ _maxSize.n = 2
    /\ Len(_entries) = 2 /\ ~Has(_entries, "a") /\ _defaultValue = "dflt"
    /\ ret = Bool(TRUE) /\ _index = 1

\* C19: cursor = -1 only on an empty buffer; once an entry has been accepted
\* the buffer never becomes empty again and the cursor stays within
\* [0, _entries.length].
C19_EmptySentinel ==
    /\ [](/\ _index = 0 - 1 => Len(_entries) = 0
          /\ Accepted => Len(_entries) > 0
          /\ Len(_entries) > 0 => (_index >= 0 /\ _index <= Len(_entries)))
    /\ [][Len(_entries) > 0 => Len(_entries') > 0]_vars

\* move.prev() was called with the cursor on the first entry and left it there
C19_Witness ==
    /\ live /\ op = "prev" /\ Len(_entries) >= 1
    /\ prior.index = 0 /\ _index = 0 /\ ret = Bool(FALSE)

\* C20: on a buffer with maxSize >= 1 that options() never reconfigured, no
\* operation decreases length(): an accepted add leaves it unchanged or
\* raises it by exactly 1, every other operation leaves it unchanged.
C20_LengthMonotone ==
    (live /\ ~reconfigured /\ _maxSize.n >= 1)
        => IF Accepted
           THEN \/ length(_entries) = Len(prior.entries)
                \/ length(_entries) = Len(prior.entries) + 1
           ELSE length(_entries) = Len(prior.entries)

\* the first of three entries of a full buffer was added again
C20_Witness ==
    /\ Accepted /\ ~reconfigured /\ _maxSize.n = 3
    /\ Len(prior.entries) = 3 /\ StrictEq(prior.entries[1], arg)
    /\ length(_entries) = 3

====
